---- MODULE Spec2Model ----
(***************************************************************************)
(* Model of the vyked Registry (src/vyked/registry.py), of the packets it  *)
(* builds (src/vyked/packet.py) and of the buses of a service process      *)
(* (src/vyked/bus.py: TCPBus and PubSubBus).                               *)
(*                                                                         *)
(* Strings that the code formats and splits (service names, versions and   *)
(* the "name/version" keys of the Repository) are sequences of one-        *)
(* character strings, so that '{}/{}'.format and str.split('/') are        *)
(* computed and not assumed to be inverse.  Python dicts are functions     *)
(* whose DOMAIN is the set of keys present; Python lists are sequences.    *)
(* The iteration order of a dict is not fixed by the language version the  *)
(* code runs on (asyncio.async exists up to Python 3.6), so every loop     *)
(* over a dict takes its keys in an arbitrary order; the order is given to *)
(* each loop as the sequence of the keys at which the loop does something  *)
(* (the keys it only passes over are left out of it).  An exception raised *)
(* inside a handler ends the handler there: what it wrote before stays     *)
(* written, and the variable `raised` records the exception.  The `pid` of *)
(* a packet is a fresh uuid4 and is left out of the packets.               *)
(***************************************************************************)
EXTENDS Integers, Sequences, FiniteSets, TLC

VARIABLES
    registered_services,  \* Repository._registered_services : key -> list of (host, port, node, type)
    pending_services,     \* Repository._pending_services    : key -> list of node_id
    service_dependencies, \* Repository._service_dependencies: key -> list of vendor dicts
    client_protocols,     \* Registry._client_protocols      : node_id -> protocol
    service_protocols,    \* Registry._service_protocols     : node_id -> protocol
    connecting,           \* node_id -> number of create_connection futures not yet done
    sent,                 \* packets written by the last handler, in order: [to, packet]
    raised,               \* exception that ended the last handler, or "none"
    last,                 \* the last handler that ran and its arguments
    deregistered,         \* node_ids whose deregister_service returned and that did not register since
    activations,          \* node_id -> activated packets sent to it since it was last added to pending
    registrations,        \* number of register packets handled so far
    \* TCPBus
    bus_addresses,        \* the Registry Client's view: (service, version) -> list of (host, port, node, type)
    bus_registered,       \* TCPBus._registered
    node_clients,         \* TCPBus._node_clients     : node_id -> service client
    bus_connecting,       \* node_ids whose create_connection future of _connect_to_client is not done
    gather,               \* the gather future of registration_complete: "none", "waiting", "ready", "done"
    bus_client_protocols, \* TCPBus._client_protocols : node_id -> protocol
    pending_requests,     \* TCPBus._pending_requests : list of packets
    tcp_host,             \* TCPBus.tcp_host: the hosted tcp service, or None
    delivered,            \* pid -> how often the request packet was written to a connection
    sends,                \* number of requests handed to TCPBus.send so far
    activated_packets,    \* number of activated packets the process received so far
    invoked,              \* the handlers of service clients the last receive started, in order
    api_futures,          \* the futures _request_receiver made, in order: request, connection, state
    \* PubSubBus
    pending_publishes,    \* PubSubBus._pending_publishes : publish_id -> future
    futures,              \* future -> state of the xpublish task: "pending", "cancelled", "finished", "failed"
    xpublish,             \* publish_id -> where its xpublish coroutine stands, with its locals
    published,            \* the publish packets written so far: publish_id, iteration, group, target
    acks,                 \* the acks on their way back, one for each publish packet written
    closed,               \* the transports closed by PubSubBus.receive
    acked,                \* publish_id -> iteration in which receive first cancelled its future, 0 if never
    publishes,            \* number of PubSubBus.publish calls so far
    broker                \* number of payloads handed to the broker (_retry_publish)

registry_vars == <<registered_services, pending_services, service_dependencies,
                   client_protocols, service_protocols, connecting, deregistered,
                   activations, registrations>>

tcp_bus_vars == <<bus_addresses, bus_registered, node_clients, bus_connecting, gather,
                  bus_client_protocols, pending_requests, tcp_host, delivered, sends,
                  activated_packets, invoked>>

pubsub_vars == <<pending_publishes, futures, xpublish, published, acks, closed, acked,
                 publishes, broker>>

receiver_vars == <<api_futures>>

bus_vars == <<tcp_bus_vars, receiver_vars, pubsub_vars>>

vars == <<registry_vars, sent, raised, last, bus_vars>>

-----------------------------------------------------------------------------
(* Bounds and input domains *)

\* register packets handled in a run of Spec
MaxRegister == 2

\* register packets handled in a run of SpecRegister
MaxRegisterOnly == 4

\* the node_ids of the processes of Spec
NodeIds == {"n1", "n2", "n3"}

\* the node_ids of the processes of SpecRegister
AllNodeIds == NodeIds \cup {"n4"}

\* service names; the last one contains the separator of the Repository keys
ServiceNames == { <<"A">>, <<"B">>, <<"A", "/", "B">> }

\* the service names that get_instances packets ask for
QueriedNames == { <<"A">>, <<"B">> }

Versions == { <<"1">> }

\* the kind of service the process that owns node_id hosts
TypeOf(node_id) == IF node_id = "n3" THEN "http" ELSE "tcp"

Hosts == {"h1"}

Ports == {4500}

\* the processes whose connection a get_instances packet comes on
Requesters == {"n1"}

Vendor(service, version) == [service |-> service, version |-> version]

\* the `vendors` lists a register packet may carry
VendorLists == { <<>>, <<Vendor(<<"B">>, <<"1">>)>> }

\* the None of an attribute that holds no object
None == [none |-> TRUE]

\* PubSubBus.publish calls in a run of SpecPubSub
MaxPublish == 2

\* xpublish iterations (Registry queries) of all publishes in a run of SpecPubSub
MaxIterations == 2

\* requests handed to TCPBus.send in a run of SpecBus
MaxSend == 2

\* activated packets a process receives in a run of SpecBus
MaxActivated == 2

\* the protocol object of the inbound connection of the process that owns node_id
ControlProtocol(node_id) == [kind |-> "control", peer |-> node_id]

\* the protocol object of the outbound connection the Registry opens to node_id
ServiceProtocol(node_id) == [kind |-> "service", peer |-> node_id]

-----------------------------------------------------------------------------
(* Python helpers *)

\* all orders in which the keys of a dict can be iterated
Orders(S) == { o \in [1..Cardinality(S) -> S] : \A i, j \in 1..Cardinality(S) : o[i] = o[j] => i = j }

\* d[k] = v on a dict
DictSet(d, k, v) == [x \in DOMAIN d \cup {k} |-> IF x = k THEN v ELSE d[x]]

\* d.pop(k, None)
DictPop(d, k) == [x \in DOMAIN d \ {k} |-> d[x]]

\* d.get(k, default)
DictGet(d, k, default) == IF k \in DOMAIN d THEN d[k] ELSE default

\* list.remove(x): drops the first occurrence of x (x is in the list)
ListRemove(lst, x) ==
    LET i == CHOOSE i \in 1..Len(lst) : lst[i] = x /\ \A j \in 1..(i-1) : lst[j] # x
    IN  [j \in 1..(Len(lst)-1) |-> IF j < i THEN lst[j] ELSE lst[j+1]]

Range(seq) == { seq[i] : i \in 1..Len(seq) }

RECURSIVE SplitFrom(_, _, _)
SplitFrom(key, i, cur) ==
    IF i > Len(key) THEN <<cur>>
    ELSE IF key[i] = "/" THEN <<cur>> \o SplitFrom(key, i+1, <<>>)
    ELSE SplitFrom(key, i+1, Append(cur, key[i]))

-----------------------------------------------------------------------------
(* Repository *)

get_full_service_name(service, version) == service \o <<"/">> \o version

split_key(key) == SplitFrom(key, 1, <<>>)

\* register_service that stores the dependencies of every register packet
repository_register_service_last_wins(reg, pend, deps, service) ==
    LET service_name == get_full_service_name(service.name, service.version)
        service_entry == <<service.host, service.port, service.node_id, service.type>>
    IN  [reg  |-> DictSet(reg, service_name, Append(DictGet(reg, service_name, <<>>), service_entry)),
         pend |-> DictSet(pend, service_name, Append(DictGet(pend, service_name, <<>>), service.node_id)),
         deps |-> DictSet(deps, service_name, service.dependencies)]

\* register_service that appends the node to the pending list only
repository_register_service_pending_only(reg, pend, deps, service) ==
    LET service_name == get_full_service_name(service.name, service.version)
    IN  [reg  |-> reg,
         pend |-> DictSet(pend, service_name, Append(DictGet(pend, service_name, <<>>), service.node_id)),
         deps |-> IF service_name \notin DOMAIN deps
                  THEN DictSet(deps, service_name, service.dependencies)
                  ELSE deps]

\* Repository.register_service on the dicts (reg, pend, deps)
repository_register_service(reg, pend, deps, service) ==
    LET service_name == get_full_service_name(service.name, service.version)
        service_entry == <<service.host, service.port, service.node_id, service.type>>
    IN  [reg  |-> DictSet(reg, service_name, Append(DictGet(reg, service_name, <<>>), service_entry)),
         pend |-> DictSet(pend, service_name, Append(DictGet(pend, service_name, <<>>), service.node_id)),
         deps |-> IF service_name \notin DOMAIN deps
                  THEN DictSet(deps, service_name, service.dependencies)
                  ELSE deps]

add_pending_service(pend, service, version, node_id) ==
    LET key == get_full_service_name(service, version)
    IN  DictSet(pend, key, Append(DictGet(pend, key, <<>>), node_id))

\* the list built from the keys of _pending_services, taken in the order `order`
get_pending_services(order) == [i \in 1..Len(order) |-> split_key(order[i])]

\* the keys of _service_dependencies that get_consumers appends something for
ConsumerKeys(deps, service_name, service_version) ==
    { key \in DOMAIN deps :
        \E i \in 1..Len(deps[key]) :
            deps[key][i].service = service_name /\ deps[key][i].version = service_version }

\* the keys of _registered_services at which get_node finds node_id
NodeKeys(reg, node_id) ==
    { key \in DOMAIN reg : \E i \in 1..Len(reg[key]) : reg[key][i][3] = node_id }

get_pending_instances(pend, service, version) ==
    DictGet(pend, get_full_service_name(service, version), <<>>)

get_instances(reg, service, version) ==
    DictGet(reg, get_full_service_name(service, version), <<>>)

get_vendors(deps, service, version) ==
    DictGet(deps, get_full_service_name(service, version), <<>>)

\* the consumers one dict item contributes: one split key per matching vendor
RECURSIVE ConsumersOfItem(_, _, _, _, _)
ConsumersOfItem(key, vendors, i, service_name, service_version) ==
    IF i > Len(vendors) THEN <<>>
    ELSE (IF vendors[i].service = service_name /\ vendors[i].version = service_version
          THEN <<split_key(key)>> ELSE <<>>)
         \o ConsumersOfItem(key, vendors, i+1, service_name, service_version)

\* `order` holds the keys of ConsumerKeys, the only ones that contribute
RECURSIVE ConsumersFrom(_, _, _, _, _)
ConsumersFrom(deps, order, i, service_name, service_version) ==
    IF i > Len(order) THEN <<>>
    ELSE ConsumersOfItem(order[i], deps[order[i]], 1, service_name, service_version)
         \o ConsumersFrom(deps, order, i+1, service_name, service_version)

\* Repository.get_consumers, the items of _service_dependencies taken in the order `order`
get_consumers(deps, order, service_name, service_version) ==
    ConsumersFrom(deps, order, 1, service_name, service_version)

NoService == [found |-> FALSE]

\* the first instance of the list that carries node_id, 0 when there is none
FirstWithNode(instances, node_id) ==
    IF \E i \in 1..Len(instances) : instances[i][3] = node_id
    THEN CHOOSE i \in 1..Len(instances) :
            instances[i][3] = node_id /\ \A j \in 1..(i-1) : instances[j][3] # node_id
    ELSE 0

\* Repository.get_node, the items of _registered_services that hold node_id taken in
\* the order `order`: [err, service]; unpacking a key that does not split in two
\* raises ValueError
RECURSIVE NodeFrom(_, _, _, _)
NodeFrom(reg, order, i, node_id) ==
    IF i > Len(order) THEN [err |-> "none", service |-> NoService]
    ELSE LET instances == reg[order[i]]
             at == FirstWithNode(instances, node_id)
             parts == split_key(order[i])
         IN  IF at = 0 THEN NodeFrom(reg, order, i+1, node_id)
             ELSE IF Len(parts) # 2 THEN [err |-> "ValueError", service |-> NoService]
             ELSE [err |-> "none",
                   service |-> [found |-> TRUE, name |-> parts[1], version |-> parts[2],
                                dependencies |-> <<>>, host |-> instances[at][1],
                                port |-> instances[at][2], node_id |-> instances[at][3],
                                type |-> instances[at][4]]]

get_node(reg, order, node_id) == NodeFrom(reg, order, 1, node_id)

-----------------------------------------------------------------------------
(* ControlPacket *)

\* the dicts send_instances and activated build from one (host, port, node, type) tuple
InstanceDict(e) == [host |-> e[1], port |-> e[2], node |-> e[3], type |-> e[4]]

AddressDict(e) == [host |-> e[1], port |-> e[2], node_id |-> e[3], type |-> e[4]]

\* ControlPacket.send_instances: unpacking an element that is no 4-tuple raises ValueError
send_instances(service, version, instances) ==
    IF \E i \in 1..Len(instances) : Len(instances[i]) # 4
    THEN [err |-> "ValueError"]
    ELSE [err |-> "none",
          packet |-> [type |-> "instances",
                      params |-> [service |-> service, version |-> version,
                                  instances |-> [i \in 1..Len(instances) |-> InstanceDict(instances[i])]]]]

deregister(service, version, node_id) ==
    [type |-> "deregister",
     params |-> [node_id |-> node_id, service |-> service, version |-> version]]

\* ControlPacket.activated; `instances` is the dict (service, version) -> instance list.
\* The list `vendors` follows the order of that dict and is kept as a set.
activated(instances) ==
    [type |-> "registered",
     params |-> [vendors |-> { [name |-> k[1], version |-> k[2],
                                addresses |-> [i \in 1..Len(instances[k]) |-> AddressDict(instances[k][i])]]
                               : k \in DOMAIN instances }]]

-----------------------------------------------------------------------------
(* Registry *)

Send(protocol, packet) == [to |-> protocol, packet |-> packet]

make_activated_packet(reg, deps, service, version) ==
    LET vendors == get_vendors(deps, service, version)
        keys == { <<vendors[i].service, vendors[i].version>> : i \in 1..Len(vendors) }
    IN  activated([k \in keys |-> get_instances(reg, k[1], k[2])])

\* should_activate is never cleared
ShouldActivateUnchecked(reg, deps, service, version) == TRUE

\* should_activate of _handle_pending_registrations: every vendor has an instance
ShouldActivate(reg, deps, service, version) ==
    LET vendors == get_vendors(deps, service, version)
    IN  \A i \in 1..Len(vendors) :
            Len(get_instances(reg, vendors[i].service, vendors[i].version)) # 0

\* the inner loop of _handle_pending_registrations: `for node in lst` reads lst[i] for
\* i = 1, 2, ... while i <= len(lst), and the body removes from that same list.
\* _send_activated_packet raises KeyError for a node without client protocol.
RECURSIVE ActivatePending(_, _, _, _, _)
ActivatePending(lst, i, cp, packet, should_activate) ==
    IF i > Len(lst) THEN [lst |-> lst, sent |-> <<>>, err |-> "none"]
    ELSE IF ~should_activate THEN ActivatePending(lst, i+1, cp, packet, should_activate)
    ELSE IF lst[i] \notin DOMAIN cp THEN [lst |-> lst, sent |-> <<>>, err |-> "KeyError"]
    ELSE LET r == ActivatePending(ListRemove(lst, lst[i]), i+1, cp, packet, should_activate)
         IN  [lst |-> r.lst, sent |-> <<Send(cp[lst[i]], packet)>> \o r.sent, err |-> r.err]

\* the outer loop of _handle_pending_registrations over get_pending_services():
\* unpacking `service, version` raises ValueError for a key that does not split in two
RECURSIVE HandleFrom(_, _, _, _, _, _)
HandleFrom(reg, pend, deps, cp, services, i) ==
    IF i > Len(services) THEN [pend |-> pend, sent |-> <<>>, err |-> "none"]
    ELSE IF Len(services[i]) # 2 THEN [pend |-> pend, sent |-> <<>>, err |-> "ValueError"]
    ELSE LET service == services[i][1]
             version == services[i][2]
             key == get_full_service_name(service, version)
             r == ActivatePending(get_pending_instances(pend, service, version), 1, cp,
                                  make_activated_packet(reg, deps, service, version),
                                  ShouldActivate(reg, deps, service, version))
             pend2 == IF key \in DOMAIN pend THEN [pend EXCEPT ![key] = r.lst] ELSE pend
         IN  IF r.err # "none" THEN [pend |-> pend2, sent |-> r.sent, err |-> r.err]
             ELSE LET rest == HandleFrom(reg, pend2, deps, cp, services, i+1)
                  IN  [pend |-> rest.pend, sent |-> r.sent \o rest.sent, err |-> rest.err]

\* the keys of _pending_services at which the sweep does something: the unpacking
\* raises, or the service is to be activated and has pending nodes
SweepKeys(reg, pend, deps) ==
    { key \in DOMAIN pend :
        LET parts == split_key(key)
        IN  \/ Len(parts) # 2
            \/ /\ Len(pend[key]) # 0
               /\ ShouldActivate(reg, deps, parts[1], parts[2]) }

handle_pending_registrations(reg, pend, deps, cp, order) ==
    HandleFrom(reg, pend, deps, cp, get_pending_services(order), 1)

\* the inner loop of _notify_consumers over the instances of one consumer
RECURSIVE NotifyInstances(_, _, _, _)
NotifyInstances(instances, i, cp, packet) ==
    IF i > Len(instances) THEN [sent |-> <<>>, err |-> "none"]
    ELSE IF instances[i][3] \notin DOMAIN cp THEN [sent |-> <<>>, err |-> "KeyError"]
    ELSE LET r == NotifyInstances(instances, i+1, cp, packet)
         IN  [sent |-> <<Send(cp[instances[i][3]], packet)>> \o r.sent, err |-> r.err]

RECURSIVE NotifyFrom(_, _, _, _, _)
NotifyFrom(reg, cp, consumers, i, packet) ==
    IF i > Len(consumers) THEN [sent |-> <<>>, err |-> "none"]
    ELSE IF Len(consumers[i]) # 2 THEN [sent |-> <<>>, err |-> "ValueError"]
    ELSE LET r == NotifyInstances(get_instances(reg, consumers[i][1], consumers[i][2]), 1, cp, packet)
         IN  IF r.err # "none" THEN r
             ELSE LET rest == NotifyFrom(reg, cp, consumers, i+1, packet)
                  IN  [sent |-> r.sent \o rest.sent, err |-> rest.err]

notify_consumers(reg, deps, cp, order, service, version, node_id) ==
    NotifyFrom(reg, cp, get_consumers(deps, order, service, version), 1,
               deregister(service, version, node_id))

-----------------------------------------------------------------------------
(* State *)

RegistryInit ==
    /\ registered_services = <<>>
    /\ pending_services = <<>>
    /\ service_dependencies = <<>>
    /\ client_protocols = <<>>
    /\ service_protocols = <<>>
    /\ connecting = [n \in AllNodeIds |-> 0]
    /\ sent = <<>>
    /\ raised = "none"
    /\ last = [op |-> "init", node_id |-> "", name |-> <<>>, version |-> <<>>, found |-> FALSE,
               vendors |-> <<>>]
    /\ deregistered = {}
    /\ activations = [n \in AllNodeIds |-> 0]
    /\ registrations = 0

\* TCPBus.__init__, for a process whose tcp_host is `host`
TCPBusInit(host) ==
    /\ bus_addresses = <<>>
    /\ bus_registered = FALSE
    /\ node_clients = <<>>
    /\ bus_connecting = {}
    /\ gather = "none"
    /\ bus_client_protocols = <<>>
    /\ pending_requests = <<>>
    /\ tcp_host = host
    /\ delivered = [pid \in 1..MaxSend |-> 0]
    /\ sends = 0
    /\ activated_packets = 0
    /\ invoked = <<>>
    /\ api_futures = <<>>

\* PubSubBus.__init__
PubSubInit ==
    /\ pending_publishes = <<>>
    /\ futures = <<>>
    /\ xpublish = <<>>
    /\ published = {}
    /\ acks = {}
    /\ closed = {}
    /\ acked = <<>>
    /\ publishes = 0
    /\ broker = 0

Init ==
    /\ RegistryInit
    /\ TCPBusInit(None)
    /\ PubSubInit

\* activated packets among `log` written to the control protocol of node_id
ActivatedTo(log, node_id) ==
    Cardinality({ i \in 1..Len(log) :
                    log[i].to = ControlProtocol(node_id) /\ log[i].packet.type = "registered" })

\* Registry.receive of a register packet, that is Registry.register_service, for the
\* packet's params and the peer host of the connection the packet came on
register_service(node_id, service, version, vendors, type, host, port) ==
    LET svc == [name |-> service, version |-> version, dependencies |-> vendors,
                host |-> host, port |-> port, node_id |-> node_id, type |-> type]
        repo == repository_register_service(registered_services, pending_services,
                                            service_dependencies, svc)
        cp == DictSet(client_protocols, node_id, ControlProtocol(node_id))
    IN  \E order \in Orders(SweepKeys(repo.reg, repo.pend, repo.deps)) :
        LET sweep == handle_pending_registrations(repo.reg, repo.pend, repo.deps, cp, order)
        IN  /\ registered_services' = repo.reg
            /\ service_dependencies' = repo.deps
            /\ client_protocols' = cp
            \* _connect_to_service: a tcp instance gets a create_connection future
            /\ connecting' = IF type = "tcp" THEN [connecting EXCEPT ![node_id] = @ + 1]
                             ELSE connecting
            /\ pending_services' = sweep.pend
            /\ sent' = sweep.sent
            /\ raised' = sweep.err
            /\ last' = [op |-> "register", node_id |-> node_id, name |-> service,
                        version |-> version, found |-> TRUE, vendors |-> vendors]
            /\ deregistered' = deregistered \ {node_id}
            /\ activations' = [n \in AllNodeIds |->
                                 (IF n = node_id THEN 0 ELSE activations[n])
                                 + ActivatedTo(sweep.sent, n)]
            /\ registrations' = registrations + 1
            /\ UNCHANGED service_protocols
            /\ UNCHANGED bus_vars

\* a register packet from one of the processes `nodes`
RegisterFrom(nodes) ==
    \E node_id \in nodes, service \in ServiceNames, version \in Versions,
       vendors \in VendorLists, host \in Hosts, port \in Ports :
       register_service(node_id, service, version, vendors, TypeOf(node_id), host, port)

Register ==
    /\ registrations < MaxRegister
    /\ RegisterFrom(NodeIds)

RegisterOnly ==
    /\ registrations < MaxRegisterOnly
    /\ RegisterFrom(AllNodeIds)

\* the done callback of the create_connection future started for node_id;
\* future.result() raises when the connection failed
handle_service_connection(node_id, connected) ==
    /\ connecting[node_id] > 0
    /\ connecting' = [connecting EXCEPT ![node_id] = @ - 1]
    /\ service_protocols' = IF connected
                            THEN DictSet(service_protocols, node_id, ServiceProtocol(node_id))
                            ELSE service_protocols
    /\ sent' = <<>>
    /\ raised' = IF connected THEN "none" ELSE "ConnectionError"
    /\ last' = [op |-> "service_connection", node_id |-> node_id, name |-> <<>>,
                version |-> <<>>, found |-> FALSE, vendors |-> <<>>]
    /\ UNCHANGED <<registered_services, pending_services, service_dependencies,
                   client_protocols, deregistered, activations, registrations>>
    /\ UNCHANGED bus_vars

HandleServiceConnection ==
    \E node_id \in NodeIds, connected \in BOOLEAN : handle_service_connection(node_id, connected)

\* the `if not len(instances)` branch of deregister_service: the two-name unpacking of
\* the consumer list raises ValueError unless the list has two elements; the loop after
\* it runs over the same, empty, instance list and so its body is never run
RependConsumers(reg, deps, order, service) ==
    IF Len(get_instances(reg, service.name, service.version)) # 0 THEN "none"
    ELSE IF Len(get_consumers(deps, order, service.name, service.version)) # 2 THEN "ValueError"
    ELSE "none"

\* deregister_service after get_node returned `service`
DeregisterFound(node_id, service) ==
    LET sp == DictPop(service_protocols, node_id)
        cp == DictPop(client_protocols, node_id)
    IN  \E order \in Orders(ConsumerKeys(service_dependencies, service.name, service.version)) :
        LET notified == notify_consumers(registered_services, service_dependencies, cp, order,
                                         service.name, service.version, node_id)
            repend == RependConsumers(registered_services, service_dependencies, order, service)
        IN  /\ service_protocols' = sp
            /\ client_protocols' = cp
            /\ sent' = notified.sent
            /\ raised' = IF notified.err # "none" THEN notified.err ELSE repend
            /\ deregistered' = IF notified.err = "none" /\ repend = "none"
                               THEN deregistered \cup {node_id} ELSE deregistered

\* Registry.deregister_service
deregister_service(node_id) ==
    \E node_order \in Orders(NodeKeys(registered_services, node_id)) :
    LET node == get_node(registered_services, node_order, node_id)
        service == node.service
    IN  /\ last' = [op |-> "deregister", node_id |-> node_id,
                    name |-> IF service.found THEN service.name ELSE <<>>,
                    version |-> IF service.found THEN service.version ELSE <<>>,
                    found |-> service.found, vendors |-> <<>>]
        /\ UNCHANGED <<registered_services, pending_services, service_dependencies,
                       connecting, activations, registrations>>
        /\ UNCHANGED bus_vars
        /\ IF node.err # "none" \/ ~service.found
           THEN /\ raised' = node.err
                /\ sent' = <<>>
                /\ UNCHANGED <<client_protocols, service_protocols, deregistered>>
           ELSE DeregisterFound(node_id, service)

Deregister ==
    \E node_id \in NodeIds : deregister_service(node_id)

\* Registry.receive of a get_instances packet, that is Registry.get_service_instances
get_service_instances(registry_protocol, service, version) ==
    \E order \in Orders(ConsumerKeys(service_dependencies, service, version)) :
    LET instances == get_consumers(service_dependencies, order, service, version)
        instance_packet == send_instances(service, version, instances)
    IN  /\ raised' = instance_packet.err
        /\ sent' = IF instance_packet.err = "none"
                   THEN <<Send(registry_protocol, instance_packet.packet)>> ELSE <<>>
        /\ last' = [op |-> "get_instances", node_id |-> registry_protocol.peer,
                    name |-> service, version |-> version, found |-> FALSE,
                    vendors |-> <<>>]
        /\ UNCHANGED <<registered_services, pending_services, service_dependencies,
                       client_protocols, service_protocols, connecting, deregistered,
                       activations, registrations>>
        /\ UNCHANGED bus_vars

GetInstances ==
    \E peer \in Requesters, service \in QueriedNames, version \in Versions :
          get_service_instances(ControlProtocol(peer), service, version)

Next == Register \/ HandleServiceConnection \/ Deregister \/ GetInstances

\* the Registry with all its handlers
Spec == Init /\ [][Next]_vars

NextRegister == RegisterOnly

\* the Registry when it receives register packets only
SpecRegister == Init /\ [][NextRegister]_vars

-----------------------------------------------------------------------------
(* TCPBus: the process's side.  The Registry Client, the protocol objects and the     *)
(* service clients are objects of other modules of the package; the bus reads them    *)
(* through get_all_addresses, resolve, is_connected, name, version and getattr.       *)

\* the protocol of an outbound connection of the bus to node_id, as the connection
\* callback stores it: is_connected() is True
ClientProtocol(node_id) == [kind |-> "client", peer |-> node_id, connected |-> TRUE]

\* the protocol of an inbound connection of the bus, from the process `peer`
PeerProtocol(peer) == [kind |-> "peer", peer |-> peer]

\* TCPBus._host_id
HostId == "host1"

\* TCPBus._service_clients: the handles of the services the process depends on, with
\* the endpoints each defines as methods
ServiceClients ==
    << [name |-> "X", version |-> "1", handlers |-> {"e1"}],
       [name |-> "Y", version |-> "1", handlers |-> {"e1", "e2"}] >>

\* the services a process may host on tcp (tcp_host), None when it hosts none
TcpHosts == { None, [name |-> "H", version |-> "1"] }

\* the views an activated packet leaves in the Registry Client: one instance for each
\* dependency, X on tcp, Y on tcp or http
ActivatedViews ==
    { (<<"X", "1">> :> << <<"h1", 4500, x, "tcp">> >>) @@ (<<"Y", "1">> :> << y >>) :
        x \in {"x1", "x2"},
        y \in { <<"h1", 4500, "y1", "tcp">>, <<"h1", 4500, "y2", "http">> } }

\* RegistryClient.get_all_addresses(sc.properties)
get_all_addresses(view, sc) == DictGet(view, <<sc.name, sc.version>>, <<>>)

\* the None that resolve returns instead of a (host, port, node_id, type) tuple
NoNode == <<>>

\* the None that _get_node_id_for_packet returns instead of a node_id
NoNodeId == "None"

\* RegistryClient.resolve(service, version, entity, kind): the instance of that kind
\* the view holds for the service (the views hold one instance a service), or None
resolve(view, service, version, entity, kind) ==
    LET instances == DictGet(view, <<service, version>>, <<>>)
        fit == { i \in 1..Len(instances) : instances[i][4] = kind }
    IN  IF fit = {} THEN NoNode
        ELSE instances[CHOOSE i \in fit : \A j \in fit : i <= j]

\* MessagePacket.request
request(pid, name, version, app_name, packet_type, endpoint, params, entity) ==
    [pid |-> pid, app |-> app_name, service |-> name, version |-> version,
     entity |-> entity, endpoint |-> endpoint, type |-> packet_type, payload |-> params]

\* _Packet.ack
ack(request_id) == [type |-> "ack", request_id |-> request_id]

\* _Packet.pong
pong(node_id) == [type |-> "pong", node_id |-> node_id]

\* TCPBus._get_node_id_for_packet
get_node_id_for_packet(view, packet) ==
    LET node == resolve(view, packet.service, packet.version, packet.entity, "tcp")
    IN  IF node # NoNode THEN node[3] ELSE NoNodeId

\* the list comprehension of _clear_request_queue from index i on, with _send_packet
\* for each packet: `seen` are the packets walked so far as _send_packet left them
\* (a written packet has its 'to' set in place), `kept` those of them that stay, and
\* `written` what was written to which protocol.  A resolved node without an entry in
\* _client_protocols raises KeyError: the slice assignment is not reached and the
\* list keeps every packet.
RECURSIVE ClearFrom(_, _, _, _, _, _, _)
ClearFrom(queue, i, cp, view, seen, kept, written) ==
    IF i > Len(queue) THEN [err |-> "none", queue |-> kept, written |-> written]
    ELSE LET packet == queue[i]
             node_id == get_node_id_for_packet(view, packet)
         IN  IF node_id = NoNodeId
             THEN ClearFrom(queue, i+1, cp, view, Append(seen, packet), Append(kept, packet), written)
             ELSE IF node_id \notin DOMAIN cp
             THEN [err |-> "KeyError", queue |-> seen \o SubSeq(queue, i, Len(queue)),
                   written |-> written]
             ELSE IF cp[node_id].connected
             THEN LET stamped == DictSet(packet, "to", node_id)
                  IN  ClearFrom(queue, i+1, cp, view, Append(seen, stamped), kept,
                                Append(written, Send(cp[node_id], stamped)))
             ELSE ClearFrom(queue, i+1, cp, view, Append(seen, packet), Append(kept, packet), written)

\* TCPBus._clear_request_queue on the list `queue`
clear_request_queue(queue, cp, view) == ClearFrom(queue, 1, cp, view, <<>>, <<>>, <<>>)

\* how often the request pid is among the packets `log` written
WritesOf(log, pid) == Cardinality({ i \in 1..Len(log) : log[i].packet.pid = pid })

\* the state after a drain that returned `drained`
Drained(drained) ==
    /\ pending_requests' = drained.queue
    /\ sent' = drained.written
    /\ raised' = drained.err
    /\ delivered' = [pid \in DOMAIN delivered |-> delivered[pid] + WritesOf(drained.written, pid)]

\* the tcp node_ids of the addresses of all service clients, as _create_service_clients
\* walks them
TcpNodes(view) ==
    { get_all_addresses(view, ServiceClients[k])[i][3] :
        <<k, i>> \in { ki \in (1..Len(ServiceClients)) \X (1..2) :
                         /\ ki[2] <= Len(get_all_addresses(view, ServiceClients[ki[1]]))
                         /\ get_all_addresses(view, ServiceClients[ki[1]])[ki[2]][4] = "tcp" } }

\* the service client _create_service_clients leaves in _node_clients[node_id]: the
\* last one of the list that has the address
ClientOfNode(view, node_id) ==
    LET has == { k \in 1..Len(ServiceClients) :
                   \E i \in 1..Len(get_all_addresses(view, ServiceClients[k])) :
                      get_all_addresses(view, ServiceClients[k])[i][3] = node_id }
    IN  ServiceClients[CHOOSE k \in has : \A j \in has : j <= k]

\* TCPBus.registration_complete, called when the Registry Client has stored the view
\* of an activated packet
registration_complete(view) ==
    IF ~bus_registered
    THEN /\ node_clients' = [n \in DOMAIN node_clients \cup TcpNodes(view) |->
                               IF n \in TcpNodes(view) THEN ClientOfNode(view, n)
                               ELSE node_clients[n]]
         /\ bus_connecting' = bus_connecting \cup TcpNodes(view)
         /\ gather' = IF TcpNodes(view) = {} THEN "ready" ELSE "waiting"
         /\ bus_registered' = TRUE
    ELSE UNCHANGED <<node_clients, bus_connecting, gather, bus_registered>>

\* an activated packet reaches the process
Activated ==
    /\ activated_packets < MaxActivated
    /\ \E view \in ActivatedViews :
          /\ bus_addresses' = view
          /\ registration_complete(view)
          /\ last' = [op |-> "activated", view |-> view]
    /\ activated_packets' = activated_packets + 1
    /\ sent' = <<>>
    /\ raised' = "none"
    /\ UNCHANGED <<bus_client_protocols, pending_requests, tcp_host, delivered, sends,
                   invoked>>
    /\ UNCHANGED <<registry_vars, receiver_vars, pubsub_vars>>

\* TCPBus._service_client_connection_callback: the done callback of the connection
\* future of node_id; future.result() raises when the connection failed.  The gather
\* future is done when its last future is, or at the first one that fails.
service_client_connection_callback(node_id, connected) ==
    /\ node_id \in bus_connecting
    /\ bus_connecting' = bus_connecting \ {node_id}
    /\ bus_client_protocols' =
          IF connected
          THEN DictSet(bus_client_protocols, node_id, ClientProtocol(node_id))
          ELSE bus_client_protocols
    /\ gather' = IF gather = "waiting" /\ (~connected \/ bus_connecting' = {})
                 THEN "ready" ELSE gather
    /\ sent' = <<>>
    /\ raised' = IF connected THEN "none" ELSE "ConnectionError"
    /\ last' = [op |-> "client_connection", node_id |-> node_id]
    /\ UNCHANGED <<bus_addresses, bus_registered, node_clients, pending_requests, tcp_host,
                   delivered, sends, activated_packets, invoked>>
    /\ UNCHANGED <<registry_vars, receiver_vars, pubsub_vars>>

ServiceClientConnection ==
    \E node_id \in bus_connecting, connected \in BOOLEAN :
        service_client_connection_callback(node_id, connected)

\* `fun`, the done callback of the gather future of registration_complete
RegistrationDrain ==
    /\ gather = "ready"
    /\ gather' = "done"
    /\ last' = [op |-> "gather"]
    /\ IF tcp_host # None
       THEN Drained(clear_request_queue(pending_requests, bus_client_protocols, bus_addresses))
       ELSE /\ sent' = <<>>
            /\ raised' = "none"
            /\ UNCHANGED <<pending_requests, delivered>>
    /\ UNCHANGED <<bus_addresses, bus_registered, node_clients, bus_connecting,
                   bus_client_protocols, tcp_host, sends, activated_packets, invoked>>
    /\ UNCHANGED <<registry_vars, receiver_vars, pubsub_vars>>

\* TCPBus.send of a request packet, that is _request_sender
send(packet) ==
    LET stamped == DictSet(packet, "from", HostId)
        drained == clear_request_queue(Append(pending_requests, stamped),
                                       bus_client_protocols, bus_addresses)
    IN  /\ Drained(drained)
        /\ sends' = sends + 1
        /\ last' = [op |-> "send", pid |-> packet.pid, packet |-> stamped]
        /\ UNCHANGED <<bus_addresses, bus_registered, node_clients, bus_connecting, gather,
                       bus_client_protocols, tcp_host, activated_packets, invoked>>
        /\ UNCHANGED <<registry_vars, receiver_vars, pubsub_vars>>

\* a service client hands a request for one of the dependencies to the bus
SendRequest ==
    /\ sends < MaxSend
    /\ \E sc \in Range(ServiceClients) :
          send(request(sends + 1, sc.name, sc.version, "app", "request", "e1", "params", ""))

\* the connection of the protocol of node_id is lost: is_connected() is False from then on
ConnectionLost ==
    \E node_id \in DOMAIN bus_client_protocols :
        /\ bus_client_protocols[node_id].connected
        /\ bus_client_protocols' = [bus_client_protocols EXCEPT ![node_id].connected = FALSE]
        /\ sent' = <<>>
        /\ raised' = "none"
        /\ last' = [op |-> "connection_lost", node_id |-> node_id]
        /\ UNCHANGED <<bus_addresses, bus_registered, node_clients, bus_connecting, gather,
                       pending_requests, tcp_host, delivered, sends, activated_packets,
                       invoked>>
        /\ UNCHANGED <<registry_vars, receiver_vars, pubsub_vars>>

\* the send path of the bus of a process
NextBus == Activated \/ ServiceClientConnection \/ RegistrationDrain \/ SendRequest \/ ConnectionLost

InitBus ==
    /\ RegistryInit
    /\ \E host \in TcpHosts : TCPBusInit(host)
    /\ PubSubInit

SpecBus == InitBus /\ [][NextBus]_vars

-----------------------------------------------------------------------------
(* TCPBus: the receive path *)

\* MessagePacket.publish
publish(publish_id, service, version, endpoint, payload) ==
    [type |-> "publish", service |-> service, version |-> version, endpoint |-> endpoint,
     payload |-> payload, publish_id |-> publish_id]

\* _Packet.ping
ping(node_id) == [type |-> "ping", node_id |-> node_id]

\* the number of requests the hosted service accepts in a run
MaxRequest == 2

\* the attributes of the hosted service that requests name as endpoint: a method
\* declared as api, one whose is_api is false, and one without is_api
HostAttributes ==
    [api1 |-> [is_api |-> "True"], plain |-> [is_api |-> "False"], helper |-> [is_api |-> "missing"]]

\* tcp_host.is_for_me(service, version)
is_for_me(host, service, version) == host.name = service /\ host.version = version

\* the request packets peers send, as the send of the sending bus stamped them, and
\* packets of another type that carry (service, version)
InboundRequests ==
    { request(pid, name, version, "app", packet_type, endpoint, "params", "entity")
          @@ [from |-> "peer1"] :
        pid \in {"r1"}, name \in {"H", "W"}, version \in {"1", "2"},
        packet_type \in {"request", "response"}, endpoint \in {"api1", "plain", "helper", "e9"} }

\* the packets that peers send to the bus
InboundPackets ==
    { publish(publish_id, service, version, endpoint, "payload") :
        publish_id \in {"p1", "p2"}, service \in {"X", "Y", "W"}, version \in {"1", "2"},
        endpoint \in {"e1", "e2", "e3"} }
    \cup { ping(node_id) : node_id \in {"x1", "y1"} }
    \cup { pong(node_id) @@ [count |-> 1] : node_id \in {"x1", "y1"} }
    \cup InboundRequests

\* the loop of _handle_publish from the i-th service client on: getattr raises
\* AttributeError when the client has no attribute `endpoint`
RECURSIVE PublishFrom(_, _, _)
PublishFrom(packet, i, started) ==
    IF i > Len(ServiceClients) THEN [err |-> "none", invoked |-> started]
    ELSE LET client == ServiceClients[i]
         IN  IF client.name = packet.service /\ client.version = packet.version
             THEN IF packet.endpoint \notin client.handlers
                  THEN [err |-> "AttributeError", invoked |-> started]
                  ELSE PublishFrom(packet, i+1,
                                   Append(started, [client |-> i, endpoint |-> packet.endpoint,
                                                    payload |-> packet.payload]))
             ELSE PublishFrom(packet, i+1, started)

\* TCPBus._handle_publish: [err, invoked, sent]
handle_publish(packet, protocol) ==
    LET looped == PublishFrom(packet, 1, <<>>)
    IN  [err |-> looped.err, invoked |-> looped.invoked,
         sent |-> IF looped.err = "none"
                  THEN <<Send(protocol, ack(packet.publish_id))>> ELSE <<>>,
         futures |-> <<>>]

\* TCPBus._handle_ping
handle_ping(packet, protocol) ==
    [err |-> "none", invoked |-> <<>>, sent |-> <<Send(protocol, pong(packet.node_id))>>,
     futures |-> <<>>]

\* TCPBus._handle_pong: _pingers has no entry (nothing in the bus adds one)
handle_pong(node_id, count) ==
    [err |-> "KeyError", invoked |-> <<>>, sent |-> <<>>, futures |-> <<>>]

\* the envelope the api handler returns for a request
ResultPacket(packet) ==
    [type |-> "response", request_id |-> packet.pid, to |-> packet.from, result |-> "result"]

\* the future _request_receiver makes of the api handler's coroutine
ApiFuture(packet, protocol) ==
    [packet |-> packet, protocol |-> protocol, state |-> "pending", replies |-> 0]

\* TCPBus._request_receiver: getattr raises AttributeError for an endpoint the host
\* does not have and for an attribute without is_api
request_receiver(packet, protocol) ==
    IF packet.endpoint \notin DOMAIN HostAttributes
        \/ HostAttributes[packet.endpoint].is_api = "missing"
    THEN [err |-> "AttributeError", invoked |-> <<>>, sent |-> <<>>, futures |-> <<>>]
    ELSE IF HostAttributes[packet.endpoint].is_api = "True"
         THEN [err |-> "none", invoked |-> <<>>, sent |-> <<>>,
               futures |-> <<ApiFuture(packet, protocol)>>]
         ELSE [err |-> "none", invoked |-> <<>>, sent |-> <<>>, futures |-> <<>>]

\* the else branch of TCPBus.receive: tcp_host.is_for_me on a bus without tcp host
\* and the lookup of a receiver the bus does not have raise AttributeError
receive_other(packet, protocol) ==
    IF tcp_host = None
    THEN [err |-> "AttributeError", invoked |-> <<>>, sent |-> <<>>, futures |-> <<>>]
    ELSE IF is_for_me(tcp_host, packet.service, packet.version)
         THEN IF packet.type = "request"
              THEN request_receiver(packet, protocol)
              ELSE [err |-> "AttributeError", invoked |-> <<>>, sent |-> <<>>, futures |-> <<>>]
         ELSE [err |-> "none", invoked |-> <<>>, sent |-> <<>>, futures |-> <<>>]

\* TCPBus.receive
receive(packet, protocol) ==
    LET handled == IF packet.type = "ping" THEN handle_ping(packet, protocol)
                   ELSE IF packet.type = "pong" THEN handle_pong(packet.node_id, packet.count)
                   ELSE IF packet.type = "publish" THEN handle_publish(packet, protocol)
                   ELSE receive_other(packet, protocol)
    IN  /\ sent' = handled.sent
        /\ raised' = handled.err
        /\ invoked' = handled.invoked
        /\ api_futures' = api_futures \o handled.futures
        /\ Len(api_futures') <= MaxRequest
        /\ last' = [op |-> "receive", packet |-> packet, protocol |-> protocol]
        /\ UNCHANGED <<bus_addresses, bus_registered, node_clients, bus_connecting, gather,
                       bus_client_protocols, pending_requests, tcp_host, delivered, sends,
                       activated_packets>>
        /\ UNCHANGED <<registry_vars, pubsub_vars>>

Receive ==
    \E packet \in InboundPackets, peer \in {"q1", "q2"} : receive(packet, PeerProtocol(peer))

\* the coroutine of the api handler ends: it returns its envelope, or it raises
api_done(i, outcome) ==
    /\ api_futures[i].state = "pending"
    /\ api_futures' = [api_futures EXCEPT ![i].state = outcome]
    /\ last' = [op |-> "api_done", packet |-> api_futures[i].packet,
                protocol |-> api_futures[i].protocol]
    /\ UNCHANGED <<sent, raised>>
    /\ UNCHANGED <<tcp_bus_vars, registry_vars, pubsub_vars>>

ApiDone ==
    \E i \in DOMAIN api_futures, outcome \in {"result", "exception"} : api_done(i, outcome)

\* send_result, the done callback of the future: f.result() raises the exception of
\* a handler that raised, before protocol.send
send_result(i) ==
    LET f == api_futures[i]
    IN  /\ f.state \in {"result", "exception"}
        /\ IF f.state = "result"
           THEN /\ sent' = <<Send(f.protocol, ResultPacket(f.packet))>>
                /\ raised' = "none"
                /\ api_futures' = [api_futures EXCEPT ![i].state = "called",
                                                      ![i].replies = @ + 1]
           ELSE /\ sent' = <<>>
                /\ raised' = "Exception"
                /\ api_futures' = [api_futures EXCEPT ![i].state = "called"]
        /\ last' = [op |-> "send_result", packet |-> f.packet, protocol |-> f.protocol]
        /\ UNCHANGED <<tcp_bus_vars, registry_vars, pubsub_vars>>

SendResult == \E i \in DOMAIN api_futures : send_result(i)

NextReceive == Receive \/ ApiDone \/ SendResult

\* the receive path of the bus of a process
SpecReceive == InitBus /\ [][NextReceive]_vars

-----------------------------------------------------------------------------
(* PubSubBus: the directed xpublish path of a publisher.  Each publish is one task  *)
(* running xpublish; the task stands at the Registry query, at a create_connection  *)
(* of _connect_and_publish or at the sleep, and a cancel ends it there.             *)

\* the uuid4 string of the n-th publish
PublishId(n) == n

\* one entry of the subscribers reply of the Registry
Subscriber(service, node_id, strategy) ==
    [service |-> service, version |-> "1", host |-> "h1", port |-> 4500,
     node_id |-> node_id, strategy |-> strategy]

\* the subscriber lists the Registry returns for the published endpoint
SubscriberLists ==
    { <<>>,
      << Subscriber("C", "c1", "LEADER") >>,
      << Subscriber("C", "c1", "LEADER"), Subscriber("C", "c2", "RANDOM") >>,
      << Subscriber("C", "c1", "RANDOM"), Subscriber("C", "c2", "LEADER") >>,
      << Subscriber("C", "c1", "LEADER"), Subscriber("D", "d1", "RANDOM") >> }

\* the entries of `subscribers` from index i on that belong to group `key`, as
\* xpublish appends them
RECURSIVE GroupFrom(_, _, _)
GroupFrom(subscribers, i, key) ==
    IF i > Len(subscribers) THEN <<>>
    ELSE (IF <<subscribers[i].service, subscribers[i].version>> = key
          THEN << <<subscribers[i].host, subscribers[i].port, subscribers[i].node_id,
                    subscribers[i].strategy>> >>
          ELSE <<>>) \o GroupFrom(subscribers, i+1, key)

\* the defaultdict `strategies` of xpublish
Strategies(subscribers) ==
    [key \in { <<subscribers[i].service, subscribers[i].version>> : i \in 1..Len(subscribers) }
        |-> GroupFrom(subscribers, 1, key)]

\* the targets _connect_and_publish may pick for a group: the first entry when its
\* strategy is LEADER, else random.choice of the group
Targets(value) ==
    IF value[1][4] = "LEADER" THEN { value[1] } ELSE Range(value)

\* a task that is not inside _connect_and_publish
Task(pc, iteration, replies) ==
    [pc |-> pc, iteration |-> iteration, replies |-> replies,
     strategies |-> <<>>, order |-> <<>>, at |-> 0, target |-> <<>>]

\* the transport of the connection opened for group `key` in an iteration
Transport(publish_id, iteration, key, target) ==
    [publish_id |-> publish_id, iteration |-> iteration, group |-> key, node_id |-> target[3]]

\* a cancel that leaves the future as it is
CancelIgnored(futs, future) == futs

\* future.cancel(): a future that is done stays as it is
Cancel(futs, future) ==
    IF futs[future] = "pending" THEN [futs EXCEPT ![future] = "cancelled"] ELSE futs

\* PubSubBus.publish
Publish ==
    /\ publishes < MaxPublish
    /\ LET publish_id == PublishId(publishes + 1)
       IN  /\ pending_publishes' = DictSet(pending_publishes, publish_id, publish_id)
           /\ futures' = DictSet(futures, publish_id, "pending")
           /\ xpublish' = DictSet(xpublish, publish_id, Task("start", 0, <<>>))
           /\ acked' = DictSet(acked, publish_id, 0)
           /\ last' = [op |-> "publish", publish_id |-> publish_id]
    /\ publishes' = publishes + 1
    /\ broker' = broker + 1
    /\ sent' = <<>>
    /\ raised' = "none"
    /\ UNCHANGED <<published, acks, closed>>
    /\ UNCHANGED <<registry_vars, tcp_bus_vars, receiver_vars>>

\* the xpublish iterations started so far
RECURSIVE IterationsOf(_)
IterationsOf(ids) ==
    IF ids = {} THEN 0
    ELSE LET id == CHOOSE id \in ids : TRUE
         IN  xpublish[id].iteration + IterationsOf(ids \ {id})

Iterations == IterationsOf(DOMAIN xpublish)

\* xpublish up to its first yield: the task starts, or its sleep is over and it calls
\* itself, and asks the Registry Client for the subscribers
XpublishQuery ==
    \E publish_id \in DOMAIN xpublish :
        /\ xpublish[publish_id].pc \in {"start", "sleep"}
        /\ Iterations < MaxIterations
        /\ xpublish' = [xpublish EXCEPT ![publish_id] =
                          Task("query", @.iteration + 1, @.replies)]
        /\ last' = [op |-> "query", publish_id |-> publish_id]
        /\ sent' = <<>>
        /\ raised' = "none"
        /\ UNCHANGED <<pending_publishes, futures, published, acks, closed, acked,
                       publishes, broker>>
        /\ UNCHANGED <<registry_vars, tcp_bus_vars, receiver_vars>>

\* xpublish from the subscribers reply to its next yield: with no subscriber the task
\* cancels the future it runs in and returns (the task ends with a result); else it
\* enters _connect_and_publish and waits for the connection to the first target
subscribers_reply(publish_id, subscribers) ==
    LET task == xpublish[publish_id]
        replies == Append(task.replies, subscribers)
        strategies == Strategies(subscribers)
    IN  /\ task.pc = "query"
        /\ IF Len(subscribers) = 0
           THEN IF publish_id \in DOMAIN pending_publishes
                THEN /\ xpublish' = [xpublish EXCEPT ![publish_id] =
                                       Task("returned", task.iteration, replies)]
                     /\ futures' = [futures EXCEPT ![pending_publishes[publish_id]] = "finished"]
                     /\ raised' = "none"
                ELSE /\ xpublish' = [xpublish EXCEPT ![publish_id] =
                                       Task("raised", task.iteration, replies)]
                     /\ futures' = [futures EXCEPT ![publish_id] = "failed"]
                     /\ raised' = "KeyError"
           ELSE /\ \E order \in Orders(DOMAIN strategies) :
                   \E target \in Targets(strategies[order[1]]) :
                      xpublish' = [xpublish EXCEPT ![publish_id] =
                                     [pc |-> "connect", iteration |-> task.iteration,
                                      replies |-> replies, strategies |-> strategies,
                                      order |-> order, at |-> 1, target |-> target]]
                /\ raised' = "none"
                /\ UNCHANGED futures
        /\ last' = [op |-> "subscribers", publish_id |-> publish_id]
        /\ sent' = <<>>
        /\ UNCHANGED <<pending_publishes, published, acks, closed, acked, publishes, broker>>
        /\ UNCHANGED <<registry_vars, tcp_bus_vars, receiver_vars>>

SubscribersReply ==
    \E publish_id \in DOMAIN xpublish, subscribers \in SubscriberLists :
        subscribers_reply(publish_id, subscribers)

\* _connect_and_publish from the end of a create_connection to the next yield: the
\* publish packet is written on the new connection; then the target of the next group
\* is picked and its connection awaited, or, after the last group, xpublish sleeps.
\* A connection that fails raises out of the task.
connect_and_publish(publish_id, connected) ==
    LET task == xpublish[publish_id]
        key == task.order[task.at]
        transport == Transport(publish_id, task.iteration, key, task.target)
        packet == publish(publish_id, "S", "1", "E", "payload")
    IN  /\ task.pc = "connect"
        /\ IF ~connected
           THEN /\ xpublish' = [xpublish EXCEPT ![publish_id] =
                                  Task("raised", task.iteration, task.replies)]
                /\ futures' = [futures EXCEPT ![publish_id] = "failed"]
                /\ sent' = <<>>
                /\ raised' = "ConnectionError"
                /\ UNCHANGED <<published, acks>>
           ELSE /\ published' = published \cup { transport @@ [members |-> task.strategies[key]] }
                /\ acks' = acks \cup { transport }
                /\ sent' = << Send(transport, packet) >>
                /\ raised' = "none"
                /\ UNCHANGED futures
                /\ IF task.at < Len(task.order)
                   THEN \E target \in Targets(task.strategies[task.order[task.at + 1]]) :
                           xpublish' = [xpublish EXCEPT ![publish_id] =
                                          [task EXCEPT !.at = @ + 1, !.target = target]]
                   ELSE xpublish' = [xpublish EXCEPT ![publish_id] =
                                       Task("sleep", task.iteration, task.replies)]
        /\ last' = [op |-> "connection", publish_id |-> publish_id]
        /\ UNCHANGED <<pending_publishes, closed, acked, publishes, broker>>
        /\ UNCHANGED <<registry_vars, tcp_bus_vars, receiver_vars>>

ConnectAndPublish ==
    \E publish_id \in DOMAIN xpublish, connected \in BOOLEAN :
        connect_and_publish(publish_id, connected)

\* PubSubBus.receive of the ack that came back on `transport`
pubsub_receive(transport) ==
    LET publish_id == transport.publish_id
    IN  /\ acks' = acks \ { transport }
        /\ last' = [op |-> "ack", publish_id |-> publish_id, transport |-> transport]
        /\ sent' = <<>>
        /\ IF publish_id \notin DOMAIN pending_publishes
           THEN /\ raised' = "KeyError"
                /\ UNCHANGED <<pending_publishes, futures, xpublish, closed, acked>>
           ELSE LET future == pending_publishes[publish_id]
                IN  /\ pending_publishes' = DictPop(pending_publishes, publish_id)
                    /\ futures' = Cancel(futures, future)
                    /\ xpublish' = IF futures'[future] = "cancelled"
                                   THEN [xpublish EXCEPT ![future] =
                                           Task("cancelled", @.iteration, @.replies)]
                                   ELSE xpublish
                    /\ closed' = closed \cup { transport }
                    /\ acked' = [acked EXCEPT ![publish_id] = xpublish[publish_id].iteration]
                    /\ raised' = "none"
        /\ UNCHANGED <<published, publishes, broker>>
        /\ UNCHANGED <<registry_vars, tcp_bus_vars, receiver_vars>>

ReceiveAck ==
    \E transport \in acks : pubsub_receive(transport)

NextPubSub == Publish \/ XpublishQuery \/ SubscribersReply \/ ConnectAndPublish \/ ReceiveAck

InitPubSub == Init

\* the publisher side of the PubSubBus of a process
SpecPubSub == InitPubSub /\ [][NextPubSub]_vars

-----------------------------------------------------------------------------
(* What the claims speak of *)

LastKey == get_full_service_name(last.name, last.version)

PendingOf(key) == DictGet(pending_services, key, <<>>)

InstancesOf(key) == DictGet(registered_services, key, <<>>)

\* the node_ids of the instances of a bucket
NodesOf(key) == { InstancesOf(key)[i][3] : i \in 1..Len(InstancesOf(key)) }

\* how often node_id occurs in the instance lists of all buckets
Occurrences(node_id) ==
    Cardinality({ p \in UNION { { <<key, i>> : i \in 1..Len(registered_services[key]) }
                                : key \in DOMAIN registered_services } :
                    registered_services[p[1]][p[2]][3] = node_id })

NodeIdsUnique == \A n \in AllNodeIds : Occurrences(n) <= 1

\* the last handler wrote a deregister packet to the control protocol of node_id
DeregisterSentTo(node_id) ==
    \E i \in 1..Len(sent) :
        sent[i].to = ControlProtocol(node_id) /\ sent[i].packet.type = "deregister"

\* the activated packets the last handler wrote to the control protocol of node_id
ActivatedPacketsTo(node_id) ==
    { i \in 1..Len(sent) :
        sent[i].to = ControlProtocol(node_id) /\ sent[i].packet.type = "registered" }

\* an activated packet lists the address of instance `entry` for vendor (service, version)
ListsAddress(packet, service, version, entry) ==
    \E v \in packet.params.vendors :
        /\ v.name = service
        /\ v.version = version
        /\ AddressDict(entry) \in Range(v.addresses)

-----------------------------------------------------------------------------
(* C1 *)

\* C1: after register_service for node n of service (s,v) has finished, sweep included,
\* if every dependency declared for (s,v) has at least one registered instance then n
\* is not in pending_instances(s,v), however many instances of (s,v) were pending
\* before.  Stated for the runs in which every node_id registered once.
C1_RegisteredNodeLeavesPending ==
    ( /\ last.op = "register"
      /\ raised = "none"
      /\ NodeIdsUnique
      /\ ShouldActivate(registered_services, service_dependencies, last.name, last.version) )
    => last.node_id \notin Range(PendingOf(LastKey))

-----------------------------------------------------------------------------
(* C2 *)

\* a node registers for a service one of whose dependencies has no instance: it stays
\* pending, and gets no activated packet if it is in no other bucket
C2_StaysPending ==
    ( /\ last.op = "register"
      /\ ~ShouldActivate(registered_services, service_dependencies, last.name, last.version) )
    => /\ last.node_id \in Range(PendingOf(LastKey))
       /\ ( NodeKeys(registered_services, last.node_id) = {LastKey}
            => ActivatedPacketsTo(last.node_id) = {} )

\* the consumers of the service just registered that have one instance, in no other
\* bucket, and all their dependencies served
C2_ActivatedConsumers ==
    { key \in ConsumerKeys(service_dependencies, last.name, last.version) \ {LastKey} :
        /\ Len(split_key(key)) = 2
        /\ Len(InstancesOf(key)) = 1
        /\ NodeKeys(registered_services, InstancesOf(key)[1][3]) = {key}
        /\ ShouldActivate(registered_services, service_dependencies,
                          split_key(key)[1], split_key(key)[2]) }

\* the first instance of a service registers and the sweep returns: the node of such a
\* consumer gets exactly one activated packet, which lists the new instance's address,
\* and leaves pending
C2_ActivatedOnce ==
    ( /\ last.op = "register"
      /\ raised = "none"
      /\ Len(InstancesOf(LastKey)) = 1 )
    => \A key \in C2_ActivatedConsumers :
          LET n == InstancesOf(key)[1][3]
          IN  /\ Cardinality(ActivatedPacketsTo(n)) = 1
              /\ \A i \in ActivatedPacketsTo(n) :
                    ListsAddress(sent[i].packet, last.name, last.version, InstancesOf(LastKey)[1])
              /\ n \notin Range(PendingOf(key))

\* no activated packet names a vendor without address
C2_NeverWithoutInstance ==
    \A i \in 1..Len(sent) :
        sent[i].packet.type = "registered"
        => \A v \in sent[i].packet.params.vendors : Len(v.addresses) > 0

\* C2: a node that registers for A/1 while A/1's dependency B/1 has no instance stays
\* pending and is sent no activated packet; when the first B/1 instance registers, A/1's
\* node is sent exactly one activated packet, which lists B/1's address; no activated
\* packet is ever sent for a service one of whose dependencies has no instance.
C2_TwoServiceActivation ==
    /\ C2_StaysPending
    /\ C2_ActivatedOnce
    /\ C2_NeverWithoutInstance

\* the first B/1 instance has just registered and A/1's node was activated by it
C2_Witness ==
    /\ last.op = "register"
    /\ raised = "none"
    /\ Len(InstancesOf(LastKey)) = 1
    /\ \E key \in C2_ActivatedConsumers :
          Cardinality(ActivatedPacketsTo(InstancesOf(key)[1][3])) = 1

-----------------------------------------------------------------------------
(* C3 *)

\* C3: when the sole instance of B/1 is deregistered, every instance of every consumer
\* A/1 is sent a deregister packet and is back in pending_instances(A/1).
C3_DependencyCollapse ==
    ( /\ last.op = "deregister"
      /\ last.found
      /\ raised = "none"
      /\ NodesOf(LastKey) = {last.node_id}
      /\ Len(InstancesOf(LastKey)) = 1 )
    => \A key \in ConsumerKeys(service_dependencies, last.name, last.version) :
          \A m \in NodesOf(key) :
             /\ DeregisterSentTo(m)
             /\ m \in Range(PendingOf(key))

-----------------------------------------------------------------------------
(* C4 *)

\* C4: between two consecutive moments at which a node is added to pending, no more
\* than one activated packet is sent to it.
C4_ActivatedAtMostOnce ==
    \A n \in AllNodeIds : activations[n] <= 1

-----------------------------------------------------------------------------
(* C5 *)

\* C5: once deregister_service(node_id) has run for a registered node, and until node_id
\* registers again, get_node(node_id) is None and node_id is in no instance list.
C5_DeregisteredIsUnreachable ==
    \A n \in deregistered :
        /\ \A key \in DOMAIN registered_services : n \notin NodesOf(key)
        /\ \A order \in Orders(NodeKeys(registered_services, n)) :
              LET node == get_node(registered_services, order, n)
              IN  node.err = "none" /\ ~node.service.found

-----------------------------------------------------------------------------
(* C6 *)

\* C6: once deregister_service(node_id) has run, and until node_id registers again,
\* node_id is a key of neither client_protocols nor service_protocols, whenever the
\* callback of the connection started at its registration runs.
C6_DeregisteredHasNoProtocol ==
    \A n \in deregistered :
        /\ n \notin DOMAIN client_protocols
        /\ n \notin DOMAIN service_protocols

-----------------------------------------------------------------------------
(* C7 *)

\* C7: when an instance of (s,v) is deregistered, the notification completes without
\* error and a deregister packet is sent to every currently registered instance of every
\* service that declares (s,v) as a dependency.
C7_ConsumersNotified ==
    ( /\ last.op = "deregister"
      /\ last.found )
    => /\ raised = "none"
       /\ \A key \in ConsumerKeys(service_dependencies, last.name, last.version) :
             \A m \in NodesOf(key) \ deregistered : DeregisterSentTo(m)

-----------------------------------------------------------------------------
(* C8 *)

\* C8: on a get_instances packet for (service, version) the Registry replies on the same
\* connection with one instances packet that lists exactly the instances registered for
\* (service, version).
C8_InstancesReply ==
    last.op = "get_instances"
    => /\ raised = "none"
       /\ Len(sent) = 1
       /\ sent[1].to = ControlProtocol(last.node_id)
       /\ sent[1].packet.type = "instances"
       /\ sent[1].packet.params.service = last.name
       /\ sent[1].packet.params.version = last.version
       /\ Range(sent[1].packet.params.instances)
             = { InstanceDict(e) : e \in Range(InstancesOf(LastKey)) }

-----------------------------------------------------------------------------
(* C9 *)

\* C9: for all services (s,v) and (s',v'): (s,v) is among get_vendors(s',v') if and only
\* if (s',v') is among get_consumers(s,v).
C9_ConsumersInverseOfVendors ==
    \A s \in ServiceNames, v \in Versions, s2 \in ServiceNames, v2 \in Versions :
        LET vendor == Vendor(s, v) \in Range(get_vendors(service_dependencies, s2, v2))
            consumer == \E order \in Orders(ConsumerKeys(service_dependencies, s, v)) :
                           <<s2, v2>> \in Range(get_consumers(service_dependencies, order, s, v))
        IN  vendor <=> consumer

-----------------------------------------------------------------------------
(* C10 *)

\* C10: every node_id is in the instance list of at most one service bucket, and at
\* most once in it.
C10_NodeInOneBucket ==
    \A n \in AllNodeIds :
        /\ Cardinality(NodeKeys(registered_services, n)) <= 1
        /\ \A key \in DOMAIN registered_services :
              Cardinality({ i \in 1..Len(registered_services[key]) :
                              registered_services[key][i][3] = n }) <= 1

-----------------------------------------------------------------------------
(* C11 *)

\* C11: every node_id in the pending list of a service bucket is the node_id of an
\* entry of the instance list of the same bucket.
C11_PendingAreRegistered ==
    \A key \in DOMAIN pending_services :
        Range(pending_services[key]) \subseteq NodesOf(key)

\* a node is pending after a deregistration took place
C11_Witness ==
    /\ last.op = "deregister"
    /\ last.found
    /\ \E key \in DOMAIN pending_services : pending_services[key] # <<>>

-----------------------------------------------------------------------------
(* C12 *)

\* C12: the dependency list of a service is fixed by the first register packet for it,
\* an empty list included: no step changes or removes an entry of _service_dependencies,
\* and after a register of a service that had no entry the entry is the packet's list.
C12_DependenciesSetOnce ==
    [][ /\ \A key \in DOMAIN service_dependencies :
              /\ key \in DOMAIN service_dependencies'
              /\ service_dependencies'[key] = service_dependencies[key]
        /\ \A key \in DOMAIN service_dependencies' \ DOMAIN service_dependencies :
              /\ last'.op = "register"
              /\ key = get_full_service_name(last'.name, last'.version)
              /\ service_dependencies'[key] = last'.vendors ]_vars

\* a later instance of a service registered with a vendors list other than the one the
\* service has, in particular when the service has an empty one
C12_Witness ==
    /\ last.op = "register"
    /\ Len(InstancesOf(LastKey)) > 1
    /\ last.vendors # <<>>
    /\ service_dependencies[LastKey] = <<>>

-----------------------------------------------------------------------------
(* C13 *)

\* the request pid is in _pending_requests
Queued(pid) == \E i \in 1..Len(pending_requests) : pending_requests[i].pid = pid

\* C13: a request handed to TCPBus.send is either still in pending_requests and was
\* never written, or it left the queue and was written to its target's connection
\* exactly once, whatever the order of sends, connection completions and drains.
C13_QueuedRequestDeliveredOnce ==
    \A pid \in 1..sends :
        \/ Queued(pid) /\ delivered[pid] = 0
        \/ ~Queued(pid) /\ delivered[pid] = 1

-----------------------------------------------------------------------------
(* C14 *)

\* C14: every time an activated packet arrived, a connection is open or being opened
\* to every tcp dependency address the Registry Client returns, and when the gather
\* callback has run no request whose target is connected is left in the queue.
C14_EveryActivationConnects ==
    /\ last.op = "activated"
       => \A n \in TcpNodes(bus_addresses) :
             n \in bus_connecting \cup DOMAIN bus_client_protocols
    /\ last.op = "gather"
       => \A i \in 1..Len(pending_requests) :
             LET n == get_node_id_for_packet(bus_addresses, pending_requests[i])
             IN  ~(n \in DOMAIN bus_client_protocols /\ bus_client_protocols[n].connected)

-----------------------------------------------------------------------------
(* C15 *)

\* C15: every packet the bus writes to a connection carries a `from` field equal to
\* the bus's host_id.
C15_FromIsHostId ==
    \A i \in 1..Len(sent) :
        /\ "from" \in DOMAIN sent[i].packet
        /\ sent[i].packet["from"] = HostId

-----------------------------------------------------------------------------
(* C20 *)

\* the service clients that a publish packet addresses
Addressed(packet) ==
    { k \in 1..Len(ServiceClients) :
        ServiceClients[k].name = packet.service /\ ServiceClients[k].version = packet.version }

\* C20: on every inbound publish packet the bus invokes the handler named by endpoint
\* on every addressed service client that has it, skips the others without error, and
\* sends exactly one ack with the packet's publish_id back on the same connection.
C20_PublishHandledAndAcked ==
    ( last.op = "receive" /\ last.packet.type = "publish" )
    => /\ raised = "none"
       /\ { invoked[i].client : i \in 1..Len(invoked) }
             = { k \in Addressed(last.packet) : last.packet.endpoint \in ServiceClients[k].handlers }
       /\ sent = << Send(last.protocol, ack(last.packet.publish_id)) >>

-----------------------------------------------------------------------------
(* C16 .. C19 *)

\* the publish packets written for publish_id
PublishedFor(publish_id) == { r \in published : r.publish_id = publish_id }

\* the groups of publish_id whose ack PubSubBus.receive has handled
AckedGroups(publish_id) == { t.group : t \in { c \in closed : c.publish_id = publish_id } }

\* the subscriber groups of the last subscribers reply for publish_id
LastGroups(publish_id) ==
    LET replies == xpublish[publish_id].replies
    IN  IF replies = <<>> THEN {} ELSE DOMAIN Strategies(replies[Len(replies)])

\* C16: for a publish with exactly one subscriber whose ack is received before the
\* retry delay of the first iteration is over: exactly one publish packet was written
\* for the publish_id and none is written later, the future is cancelled, the entry is
\* out of pending_publishes and the transport is closed.
C16_AckCancelsRetries ==
    \A publish_id \in DOMAIN xpublish :
        ( /\ acked[publish_id] = 1
          /\ Len(xpublish[publish_id].replies[1]) = 1 )
        => /\ Cardinality(PublishedFor(publish_id)) = 1
           /\ futures[publish_id] = "cancelled"
           /\ xpublish[publish_id].pc = "cancelled"
           /\ publish_id \notin DOMAIN pending_publishes
           /\ \A r \in PublishedFor(publish_id) :
                 Transport(publish_id, r.iteration, r.group, <<"", 0, r.node_id>>) \in closed

\* the single subscriber acked the first delivery while another iteration could run
C16_Witness ==
    \E publish_id \in DOMAIN xpublish :
        /\ acked[publish_id] = 1
        /\ Len(xpublish[publish_id].replies[1]) = 1
        /\ last.op = "ack"
        /\ Iterations < MaxIterations

\* C17: the retry loop of a publish is cancelled only when every subscriber group of
\* the publish has acked, and a loop that was cancelled has written the publish to
\* every group at least once.
C17_CancelledWhenAllAcked ==
    \A publish_id \in DOMAIN xpublish :
        futures[publish_id] = "cancelled"
        => /\ LastGroups(publish_id) \subseteq AckedGroups(publish_id)
           /\ LastGroups(publish_id) \subseteq { r.group : r \in PublishedFor(publish_id) }

\* C18: in each iteration one target is written to for each subscriber group; it is
\* the first subscriber of the group when any subscriber of the group has strategy
\* LEADER, and a member of the group otherwise.
C18_LeaderIsFirst ==
    \A r \in published :
        /\ \E i \in 1..Len(r.members) : r.members[i][3] = r.node_id
        /\ (\E i \in 1..Len(r.members) : r.members[i][4] = "LEADER")
              => r.node_id = r.members[1][3]
        /\ \A q \in published :
              (q.publish_id = r.publish_id /\ q.iteration = r.iteration /\ q.group = r.group)
              => q = r

\* C19: when an iteration finds no subscriber, the loop has stopped, the future is no
\* longer pending and the publish_id has no entry in pending_publishes.
C19_NoSubscribersReleasesEntry ==
    \A publish_id \in DOMAIN xpublish :
        ( /\ xpublish[publish_id].replies # <<>>
          /\ xpublish[publish_id].replies[Len(xpublish[publish_id].replies)] = <<>> )
        => /\ xpublish[publish_id].pc \in {"returned", "cancelled"}
           /\ futures[publish_id] # "pending"
           /\ publish_id \notin DOMAIN pending_publishes

-----------------------------------------------------------------------------
(* C21, C22 *)

\* the packet carries (service, version) of the service the bus hosts
LocallyHosted(packet) ==
    /\ tcp_host # None
    /\ is_for_me(tcp_host, packet.service, packet.version)

\* C21: an inbound packet of any type whose (service, version) is not the locally
\* hosted service is dropped: receive raises nothing, invokes no handler, makes no
\* handler future and writes nothing back on the connection.
C21_MisroutedDropped ==
    ( /\ last.op = "receive"
      /\ "service" \in DOMAIN last.packet
      /\ ~LocallyHosted(last.packet) )
    => /\ raised = "none"
       /\ invoked = <<>>
       /\ sent = <<>>
       /\ \A i \in DOMAIN api_futures : api_futures[i].packet # last.packet

\* C22: once the handler of an accepted request has ended and the done callback has
\* run, exactly one reply was written on the request's connection, whether the handler
\* returned or raised.
C22_OneReplyPerRequest ==
    \A i \in DOMAIN api_futures :
        api_futures[i].state = "called" => api_futures[i].replies = 1

-----------------------------------------------------------------------------
(* C23 *)

\* C23: after a register whose sweep returned, no service whose dependencies all have
\* an instance still has a pending node, and a second sweep run right afterwards, in
\* any order of the pending services, sends no activated packet.  Stated for the
\* runs in which every node_id registered once.
C23_SweepReachesFixedPoint ==
    ( last.op = "register" /\ raised = "none" /\ NodeIdsUnique )
    => /\ \A key \in DOMAIN pending_services :
             LET parts == split_key(key)
             IN  ( /\ Len(parts) = 2
                   /\ ShouldActivate(registered_services, service_dependencies,
                                     parts[1], parts[2]) )
                 => pending_services[key] = <<>>
       /\ \A order \in Orders(SweepKeys(registered_services, pending_services,
                                        service_dependencies)) :
             handle_pending_registrations(registered_services, pending_services,
                                          service_dependencies, client_protocols,
                                          order).sent = <<>>

-----------------------------------------------------------------------------
(* C24 *)

\* the packet is one that a drain with this view and these connections leaves in the
\* queue: its target is unresolved, or has no connected client protocol
StaysQueued(view, cp, packet) ==
    LET node_id == get_node_id_for_packet(view, packet)
    IN  \/ node_id = NoNodeId
        \/ node_id \notin DOMAIN cp
        \/ ~cp[node_id].connected

\* a drain of the list `queue` that ended with the list `left` and the writes `written`
\* removed exactly the packets it wrote, kept the others in their order, wrote no
\* packet that had to stay, and stamped every written packet with its resolved node_id
DrainFrame(queue, left, written, view, cp) ==
    LET pids == { written[i].packet.pid : i \in 1..Len(written) }
        kept(packet) == packet.pid \notin pids
    IN  /\ left = SelectSeq(queue, kept)
        /\ \A i \in 1..Len(queue) : StaysQueued(view, cp, queue[i]) => kept(queue[i])
        /\ \A i \in 1..Len(written) :
              /\ "to" \in DOMAIN written[i].packet
              /\ written[i].packet["to"] = get_node_id_for_packet(view, written[i].packet)

\* C24: every drain of pending_requests, of TCPBus.send and of the gather callback,
\* removes exactly the packets it wrote and keeps every other packet in its original
\* relative order; a packet whose target is unresolved or not connected stays in the
\* queue unwritten; a written packet carries to = the resolved node_id.
C24_DrainKeepsTheRest ==
    [][ /\ last'.op = "send"
           => DrainFrame(Append(pending_requests, last'.packet), pending_requests', sent',
                         bus_addresses, bus_client_protocols)
        /\ (last'.op = "gather" /\ tcp_host # None)
           => DrainFrame(pending_requests, pending_requests', sent',
                         bus_addresses, bus_client_protocols) ]_vars

-----------------------------------------------------------------------------
(* C25, C26 *)

\* C25: the sweep of every register targets only nodes that have an entry in
\* client_protocols, whatever was registered and deregistered before: it raises no
\* KeyError and every packet it sent went to a node that has an entry.
C25_SweepTargetsHaveProtocol ==
    last.op = "register"
    => /\ raised # "KeyError"
       /\ \A i \in 1..Len(sent) : sent[i].to.peer \in DOMAIN client_protocols

\* C26: an activated packet is sent only when every vendor of the service has an
\* instance that is registered and was not deregistered since, and it lists the
\* address of no instance that was deregistered.
C26_OnlyRegisteredInstancesCount ==
    \A i \in 1..Len(sent) :
        sent[i].packet.type = "registered"
        => \A v \in sent[i].packet.params.vendors :
              /\ \E j \in 1..Len(v.addresses) : v.addresses[j].node_id \notin deregistered
              /\ \A j \in 1..Len(v.addresses) : v.addresses[j].node_id \notin deregistered

-----------------------------------------------------------------------------
(* C27 *)

\* C27: PubSubBus.receive of an ack whose publish_id has no entry in pending_publishes
\* raises nothing, leaves pending_publishes and every future as they are, and closes
\* the transport the ack came on.
C27_AckWithoutEntryHandled ==
    [][ ( /\ last'.op = "ack"
          /\ last'.publish_id \notin DOMAIN pending_publishes )
        => /\ raised' = "none"
           /\ pending_publishes' = pending_publishes
           /\ futures' = futures
           /\ last'.transport \in closed' ]_vars

====
